---- MODULE Spec2Model ----
(***************************************************************************)
(* Bee-colony system-dynamics model (script.py) and its scenario           *)
(* comparator, as a state machine.                                         *)
(*                                                                         *)
(* Python floats are IEEE 754 binary64 numbers: a float is a record        *)
(* [s, m, e] standing for s * M * 2^e, with s the sign (1 or -1), M the    *)
(* significand, 2^52 <= M < 2^53, kept in m as four limbs of 14 bits,      *)
(* lowest first, and e the exponent; zero is s = 0.  Every arithmetic      *)
(* operation returns the exact result rounded to 53 bits, ties to even,    *)
(* as the hardware does, so expressions are translated operation by        *)
(* operation in the order Python evaluates them.  All intermediate         *)
(* integers stay below 2^31.  The two zeros of binary64 compare equal in   *)
(* Python and are one value here; the exponent is not bounded, every       *)
(* value of the runs modelled lying far inside the range of normal         *)
(* numbers (no infinity, NaN or subnormal number arises).                  *)
(*                                                                         *)
(* BPTK-Py (not part of the repository) is modelled by what the script     *)
(* uses of it: a converter or flow is its equation evaluated at the        *)
(* current stock, and the stock at t is the stock at t - dt plus dt times  *)
(* its equation at t - dt (Euler), memoized per time step.                 *)
(***************************************************************************)
EXTENDS Integers, Sequences, FiniteSets, TLC

\* ---------------------------------------------------------------------------
\* Python floats (IEEE 754 binary64)
\* ---------------------------------------------------------------------------

\* sys.float_info.radix and sys.float_info.mant_dig
Radix == 2
MantDig == 53

\* A significand is kept as MantLimbs limbs of LimbBits bits, lowest first.
LimbBits == 14
Base == Radix^LimbBits
MantLimbs == 4
\* Inside an operation a number is held as H * Base2 + L with 0 <= L < Base2;
\* a normalised significand has HMin <= H < 2 * HMin.
Base2 == Base * Base
HMin == Radix^(MantDig - 1 - 2 * LimbBits)
\* A sum is computed with GuardBits more bits than a significand has.
GuardBits == 3
Guard == Radix^GuardBits

Abs(n) == IF n < 0 THEN -n ELSE n
Sgn(n) == IF n < 0 THEN -1 ELSE IF n = 0 THEN 0 ELSE 1
Min(x, y) == IF x < y THEN x ELSE y

Zero == [s |-> 0, m |-> <<0, 0, 0, 0>>, e |-> 0]

\* The two halves of a significand.
Low(m) == m[1] + m[2] * Base
High(m) == m[3] + m[4] * Base

\* The float s * (H * Base2 + L) * 2^e of a normalised significand.
Pack(s, H, L, e) ==
    [s |-> s, m |-> <<L % Base, L \div Base, H % Base, H \div Base>>, e |-> e]

\* The float s * (H * Base2 + L) * 2^e for 0 < H * Base2 + L < 2^MantDig:
\* exact, the significand is shifted up by limbs and then by bits.
RECURSIVE Normalize(_, _, _, _)
Normalize(s, H, L, e) ==
    IF H >= HMin THEN Pack(s, H, L, e)
    ELSE IF H < HMin \div Base
    THEN Normalize(s, H * Base + L \div Base, (L % Base) * Base, e - LimbBits)
    ELSE Normalize(s, H * Radix + L \div (Base2 \div Radix),
                   (L % (Base2 \div Radix)) * Radix, e - 1)

\* The float s * (H * Base2 + L + 1) * 2^e, or without the 1 unless up.
CarryHigh(s, H, e) ==
    IF H = 2 * HMin THEN Pack(s, HMin, 0, e + 1) ELSE Pack(s, H, 0, e)
Carry(s, H, L, e, up) ==
    IF up /\ L + 1 = Base2 THEN CarryHigh(s, H + 1, e)
    ELSE Pack(s, H, IF up THEN L + 1 ELSE L, e)

\* Round half to even: the bits dropped are rem of p, twice rem is rem2;
\* sticky says that something nonzero lies below them, odd that the last
\* bit kept is set.
RoundsUp(rem2, p, sticky, odd) == rem2 > p \/ (rem2 = p /\ (sticky \/ odd))

\* The float nearest to s * (H * Base2 + L + f) * 2^e, where H * Base2 + L
\* has MantDig + k bits and the low k bits are dropped (p = 2^k), and sticky
\* says that the fraction f, 0 <= f < 1, is not zero.
RoundAt(s, H, L, p, e, sticky) ==
    Carry(s, H \div p, L \div p + (H % p) * (Base2 \div p), e,
          RoundsUp((L % p) * 2, p, sticky, (L \div p) % 2 = 1))
Round(s, H, L, k, e, sticky) == RoundAt(s, H, L, Radix^k, e + k, sticky)

\* Number of bits of H * Base2 + L above MantDig, for H >= HMin.
RECURSIVE Excess(_)
Excess(H) == IF H < 2 * HMin THEN 0 ELSE 1 + Excess(H \div Radix)

\* float(n) for a Python int n, |n| < 2^31: exact.
Float(n) ==
    IF n = 0 THEN Zero
    ELSE Normalize(Sgn(n), Abs(n) \div Base2, Abs(n) % Base2, 0)

FNeg(a) == [a EXCEPT !.s = -a.s]

\* a * b: the exact product of the significands, column by column, rounded
\* once.  The product has 2 * MantDig bits or one less; its low
\* MantDig - GuardBits bits, which are three limbs and MulDrop, only matter
\* for being zero or not.
MulDrop == Radix^(MantDig - GuardBits - (MantLimbs - 1) * LimbBits)
MulUp == Base \div MulDrop
MulRound(s, e, c4, c5, c6, hi, sticky) ==
    Round(s, c6 \div MulDrop + hi * MulUp,
          c4 \div MulDrop + c5 * MulUp + (c6 % MulDrop) * MulUp * Base,
          Excess(c6 \div MulDrop + hi * MulUp),
          e + MantDig - GuardBits, sticky \/ c4 % MulDrop # 0)
MulHigh(s, x, y, e, c, sticky) ==
    LET v4 == x[1] * y[4] + x[2] * y[3] + x[3] * y[2] + x[4] * y[1] + c
        v5 == x[2] * y[4] + x[3] * y[3] + x[4] * y[2] + v4 \div Base
        v6 == x[3] * y[4] + x[4] * y[3] + v5 \div Base
        v7 == x[4] * y[4] + v6 \div Base
    IN  MulRound(s, e, v4 % Base, v5 % Base, v6 % Base, v7, sticky)
MulLow(s, x, y, e) ==
    LET v1 == x[1] * y[1]
        v2 == x[1] * y[2] + x[2] * y[1] + v1 \div Base
        v3 == x[1] * y[3] + x[2] * y[2] + x[3] * y[1] + v2 \div Base
    IN  MulHigh(s, x, y, e, v3 \div Base,
                v1 % Base # 0 \/ v2 % Base # 0 \/ v3 % Base # 0)
FMul(a, b) ==
    IF a.s = 0 \/ b.s = 0 THEN Zero
    ELSE MulLow(a.s * b.s, a.m, b.m, a.e + b.e)

\* a + b: the significand of the operand with the higher exponent gets
\* GuardBits more bits, the other one is aligned to it, a bit set in what the
\* alignment shifts out is kept as the lowest bit, and the signed sum is
\* rounded once.
GuardLow(m) == (Low(m) % (Base2 \div Guard)) * Guard
GuardHigh(m) == High(m) * Guard + Low(m) \div (Base2 \div Guard)
\* (H * Base2 + L) \div 2^d, and whether a set bit was shifted out.
ShiftDown(H, L, d) ==
    IF d >= 2 * LimbBits
    THEN [h |-> 0, l |-> H \div Radix^(d - 2 * LimbBits),
          sticky |-> L # 0 \/ H % Radix^(d - 2 * LimbBits) # 0]
    ELSE [h |-> H \div Radix^d,
          l |-> L \div Radix^d + (H % Radix^d) * (Base2 \div Radix^d),
          sticky |-> L % Radix^d # 0]
AddNorm(s, e, H, L) ==
    IF H = 0 /\ L = 0 THEN Zero
    ELSE IF H < HMin THEN Normalize(s, H, L, e)
    ELSE Round(s, H, L, Excess(H), e, FALSE)
\* H * Base2 + L is the signed sum, 0 <= L < Base2.
AddSigned(s, e, H, L) ==
    AddNorm(IF H < 0 THEN -s ELSE s, e,
            IF H >= 0 THEN H ELSE IF L = 0 THEN -H ELSE -H - 1,
            IF H < 0 THEN (Base2 - L) % Base2 ELSE L)
AddCarried(s, e, SH, SL) == AddSigned(s, e, SH + SL \div Base2, SL % Base2)
AddSum(s, t, e, XH, XL, y) ==
    AddCarried(s, e, XH + t * y.h,
               XL + t * (IF y.sticky /\ y.l % 2 = 0 THEN y.l + 1 ELSE y.l))
AddOrdered(hi, lo, d) ==
    IF d >= MantDig + 2 THEN hi
    ELSE AddSum(hi.s, hi.s * lo.s, hi.e - GuardBits, GuardHigh(hi.m), GuardLow(hi.m),
                ShiftDown(GuardHigh(lo.m), GuardLow(lo.m), d))
FAdd(a, b) ==
    IF a.s = 0 THEN b
    ELSE IF b.s = 0 THEN a
    ELSE AddOrdered(IF a.e >= b.e THEN a ELSE b, IF a.e >= b.e THEN b ELSE a,
                    Abs(a.e - b.e))

\* a - b
FSub(a, b) == FAdd(a, FNeg(b))

IsZero(N) == \A i \in 1..Len(N) : N[i] = 0

\* M < N for two significands.
LimbsLt(M, N) ==
    High(M) < High(N) \/ (High(M) = High(N) /\ Low(M) < Low(N))

\* a / b for b # 0: long division of the significands, limb by limb, the
\* quotient rounded once.  Both are scaled so that the highest limb of the
\* divisor is at least Base \div 2 and the dividend is below the divisor; r is
\* the remainder so far, qs the limbs of the quotient found, lowest first,
\* qhat an estimate of the next limb that is never too small.
DivBits == MantLimbs * LimbBits - MantDig
RECURSIVE LongDiv(_, _, _, _)
RECURSIVE QuotientLimb(_, _, _, _, _)
QuotientLimb(qs, r, D, qhat, n) ==
    LET v1 == -qhat * D[1]
        v2 == r[1] - qhat * D[2] + v1 \div Base
        v3 == r[2] - qhat * D[3] + v2 \div Base
        v4 == r[3] - qhat * D[4] + v3 \div Base
        v5 == r[4] + v4 \div Base
    IN  IF v5 < 0 THEN QuotientLimb(qs, r, D, qhat - 1, n)
        ELSE LongDiv(<<qhat>> \o qs, <<v1 % Base, v2 % Base, v3 % Base, v4 % Base>>,
                     D, n - 1)
LongDiv(qs, r, D, n) ==
    IF n = 0 THEN [q |-> qs, r |-> r]
    ELSE QuotientLimb(qs, r, D,
                      Min((r[MantLimbs] * Base + r[MantLimbs - 1]) \div D[MantLimbs],
                          Base - 1), n)
\* The limbs of M * up, for up dividing Base.
Scale(M, up) ==
    <<(M[1] % (Base \div up)) * up,
      (M[2] % (Base \div up)) * up + M[1] \div (Base \div up),
      (M[3] % (Base \div up)) * up + M[2] \div (Base \div up),
      M[4] * up + M[3] \div (Base \div up)>>
DivRound(s, e, qr) ==
    Round(s, High(qr.q), Low(qr.q), DivBits, e, ~IsZero(qr.r))
\* g is 1 when the significand of a is not below that of b, else 0.
DivScaled(a, b, g) ==
    DivRound(a.s * b.s, a.e - b.e - MantLimbs * LimbBits + g,
             LongDiv(<< >>, Scale(a.m, Radix^(DivBits - g)), Scale(b.m, Radix^DivBits),
                     MantLimbs))
FDiv(a, b) ==
    IF a.s = 0 THEN Zero
    ELSE DivScaled(a, b, IF LimbsLt(a.m, b.m) THEN 0 ELSE 1)

\* a < b
MagLt(x, y) == x.e < y.e \/ (x.e = y.e /\ LimbsLt(x.m, y.m))
FLt(a, b) ==
    IF a.s # b.s THEN a.s < b.s
    ELSE IF a.s = 0 THEN FALSE
    ELSE IF a.s = 1 THEN MagLt(a, b)
    ELSE MagLt(b, a)

\* a <= b
FLe(a, b) == ~FLt(b, a)

\* max(a, b) and min(a, b) of Python: the first argument unless the second is
\* strictly beyond it.
FMax(a, b) == IF FLt(a, b) THEN b ELSE a
FMin(a, b) == IF FLt(b, a) THEN b ELSE a

\* The float literal n * 10^e, e.g. 0.045 is F(45, -3): the float nearest to
\* the decimal number, which is the quotient, rounded once, of the two
\* integers n and 10^(-e).
F(n, e) ==
    IF e >= 0 THEN Float(n * 10^e)
    ELSE FDiv(Float(n), Float(10^(-e)))

\* The float literals of the script's expressions.
One == Float(1)
Half == F(5, -1)
Two == Float(2)
Six == Float(6)
SevenTenths == F(7, -1)
Thousand == Float(1000)

\* ---------------------------------------------------------------------------
\* Module-level constants of script.py
\* ---------------------------------------------------------------------------

START_YEAR == 2022
DEFAULT_INITIAL_COLONIES == 182300
BASE_GROWTH_RATE == F(45, -3)
BASE_LOSS_RATE == F(4, -2)
CARRYING_CAPACITY == 350000
CLIMATE_LOSS_FACTOR == F(5, -1)
CLIMATE_GROWTH_FACTOR == F(1, 0)
DENSITY_LOSS_FACTOR == F(1, -1)
VALUE_PER_COLONY == 1585
ECONOMIC_VALUE_SCALER == F(6, -1)
HONEY_MIN == F(72, -1)
HONEY_MAX == F(299, -1)
WINTER_BEE_LIFESPAN_MONTHS == <<5, 6>>

\* The module namespace: Python globals are variables of the process.
ModuleConstants ==
    [START_YEAR |-> START_YEAR,
     DEFAULT_INITIAL_COLONIES |-> DEFAULT_INITIAL_COLONIES,
     BASE_GROWTH_RATE |-> BASE_GROWTH_RATE,
     BASE_LOSS_RATE |-> BASE_LOSS_RATE,
     CARRYING_CAPACITY |-> CARRYING_CAPACITY,
     CLIMATE_LOSS_FACTOR |-> CLIMATE_LOSS_FACTOR,
     CLIMATE_GROWTH_FACTOR |-> CLIMATE_GROWTH_FACTOR,
     DENSITY_LOSS_FACTOR |-> DENSITY_LOSS_FACTOR,
     VALUE_PER_COLONY |-> VALUE_PER_COLONY,
     ECONOMIC_VALUE_SCALER |-> ECONOMIC_VALUE_SCALER,
     HONEY_MIN |-> HONEY_MIN,
     HONEY_MAX |-> HONEY_MAX,
     WINTER_BEE_LIFESPAN_MONTHS |-> WINTER_BEE_LIFESPAN_MONTHS]

\* ScenarioParams(environment_stress, disease_management, climate_factor)
ScenarioParams(es, dm, cf) ==
    [environment_stress |-> es, disease_management |-> dm, climate_factor |-> cf]

VARIABLES
    consts,     \* the module-level constants
    params,     \* the caller's ScenarioParams objects: [baseline, scenario]
    pc,         \* "idle", "build", "loop", "losses"
    via,        \* "run": run_bee_scenarios; "api": the same from api_simulate;
                \* "direct": the three functions called one by one
    target,     \* which of the two runs simulate_scenario is computing
    years,      \* the years argument of the simulate_scenario call in progress
    model,      \* the BPTK model object built last
    step,       \* loop variable of simulate_scenario
    records,    \* the records list of simulate_scenario
    df,         \* the frames returned to the caller: [baseline, scenario, loss]
    returned,   \* the slots of df that hold a returned frame
    raised      \* the exception the last call ended with, or "none"

vars == <<consts, params, pc, via, target, years, model, step, records, df,
          returned, raised>>

\* ---------------------------------------------------------------------------
\* _build_bee_model
\* ---------------------------------------------------------------------------

NoModel == [name |-> "none"]

\* winter_loss_penalty = max(0.0, min(1.0, (6.0 - avg_winter_months) / 6.0))
WinterLossPenalty(months) ==
    LET avg_winter_months == FDiv(Float(months[1] + months[2]), Two)
    IN  FMax(Zero, FMin(One, FDiv(FSub(Six, avg_winter_months), Six)))

\* bee_colonies.initial_value
InitialValue == Float(consts.DEFAULT_INITIAL_COLONIES)

\* Mutant: the model object of the previous call is found again under its name,
\* with what it has computed.
StaleMemo == IF model.name = "bee_sd" THEN model.memo ELSE << >>

\* The memo of the model's stock when the model is built: nothing computed yet.
FreshMemo == << >>

\* Model(starttime=0, stoptime=years, dt=1.0, name="bee_sd") with its constants,
\* the stock's initial value and the two module constants used as plain floats
\* inside the equations.
BuildBeeModel(yrs, p) ==
    [name |-> "bee_sd",
     starttime |-> 0,
     stoptime |-> yrs,
     dt |-> One,
     environment_stress |-> p.environment_stress,
     disease_management |-> p.disease_management,
     climate_factor |-> p.climate_factor,
     base_growth_rate |-> consts.BASE_GROWTH_RATE,
     base_loss_rate |-> consts.BASE_LOSS_RATE,
     winter_loss_penalty |-> WinterLossPenalty(consts.WINTER_BEE_LIFESPAN_MONTHS),
     honey_min |-> consts.HONEY_MIN,
     honey_max |-> consts.HONEY_MAX,
     value_per_colony |-> Float(consts.VALUE_PER_COLONY),
     carrying_capacity |-> Float(consts.CARRYING_CAPACITY),
     climate_loss_factor |-> consts.CLIMATE_LOSS_FACTOR,
     density_loss_factor |-> consts.DENSITY_LOSS_FACTOR,
     climate_growth_factor |-> consts.CLIMATE_GROWTH_FACTOR,
     economic_value_scaler |-> consts.ECONOMIC_VALUE_SCALER,
     initial_value |-> InitialValue,
     memo |-> FreshMemo]

\* base_growth_rate * (1.0 + 0.5 * (1.0 - env_stress) + 0.5 * disease_mgmt)
\*                  * (0.7 + CLIMATE_GROWTH_FACTOR * climate_factor)
effective_growth(mdl) ==
    FMul(FMul(mdl.base_growth_rate,
              FAdd(FAdd(One, FMul(Half, FSub(One, mdl.environment_stress))),
                   FMul(Half, mdl.disease_management))),
         FAdd(SevenTenths, FMul(mdl.climate_growth_factor, mdl.climate_factor)))

\* Mutant: environment stress enters the loss rate with the wrong sign.
effective_loss_sign(mdl, bee_colonies) ==
    FMul(mdl.base_loss_rate,
         FMul(FMul(FAdd(FAdd(FSub(One, mdl.environment_stress),
                             FMul(Half, FSub(One, mdl.disease_management))),
                        mdl.winter_loss_penalty),
                   FAdd(One, FMul(mdl.climate_loss_factor,
                                  FSub(One, mdl.climate_factor)))),
              FAdd(One, FMul(mdl.density_loss_factor,
                             FDiv(bee_colonies, mdl.carrying_capacity)))))

\* base_loss_rate * ((1.0 + env_stress + 0.5 * (1.0 - disease_mgmt) + winter_penalty)
\*                   * (1.0 + climate_loss_factor * (1.0 - climate_factor))
\*                   * (1.0 + density_loss_factor * (bee_colonies / carrying_capacity)))
effective_loss(mdl, bee_colonies) ==
    FMul(mdl.base_loss_rate,
         FMul(FMul(FAdd(FAdd(FAdd(One, mdl.environment_stress),
                             FMul(Half, FSub(One, mdl.disease_management))),
                        mdl.winter_loss_penalty),
                   FAdd(One, FMul(mdl.climate_loss_factor,
                                  FSub(One, mdl.climate_factor)))),
              FAdd(One, FMul(mdl.density_loss_factor,
                             FDiv(bee_colonies, mdl.carrying_capacity)))))

\* Mutant: growth without the (1.0 - bee_colonies / carrying_capacity) factor.
colony_growth_unbounded(mdl, bee_colonies) ==
    FMul(bee_colonies, effective_growth(mdl))

\* bee_colonies * effective_growth * (1.0 - bee_colonies / carrying_capacity)
colony_growth(mdl, bee_colonies) ==
    FMul(FMul(bee_colonies, effective_growth(mdl)),
         FSub(One, FDiv(bee_colonies, mdl.carrying_capacity)))

\* bee_colonies * effective_loss
colony_losses(mdl, bee_colonies) ==
    FMul(bee_colonies, effective_loss(mdl, bee_colonies))

\* Mutant: the flows are subtracted the wrong way round.
NetFlowReversed(mdl, bee_colonies) ==
    FSub(colony_losses(mdl, bee_colonies), colony_growth(mdl, bee_colonies))

\* bee_colonies.equation = colony_growth - colony_losses
NetFlow(mdl, bee_colonies) ==
    FSub(colony_growth(mdl, bee_colonies), colony_losses(mdl, bee_colonies))

\* Mutant: stress raises the yield instead of discounting it.
honey_yield_bonus(mdl) ==
    FMul(FAdd(mdl.honey_min,
              FMul(mdl.climate_factor, FSub(mdl.honey_max, mdl.honey_min))),
         FAdd(One, FMul(Half, mdl.environment_stress)))

\* (honey_min + climate_factor * (honey_max - honey_min)) * (1.0 - 0.5 * env_stress)
honey_yield_per_colony(mdl) ==
    FMul(FAdd(mdl.honey_min,
              FMul(mdl.climate_factor, FSub(mdl.honey_max, mdl.honey_min))),
         FSub(One, FMul(Half, mdl.environment_stress)))

\* bee_colonies * honey_yield_per_colony / 1000.0
honey_production_tons(mdl, bee_colonies) ==
    FDiv(FMul(bee_colonies, honey_yield_per_colony(mdl)), Thousand)

\* bee_colonies * value_per_colony * ECONOMIC_VALUE_SCALER
economic_value_chf(mdl, bee_colonies) ==
    FMul(FMul(bee_colonies, mdl.value_per_colony), mdl.economic_value_scaler)

\* model.memoize("bee_colonies", t): the stock at time t, from the memo when it
\* is there, else the initial value at the start time and one Euler step from
\* the stock at t - dt after it (dt = 1).
RECURSIVE Stock(_, _)
Stock(mdl, t) ==
    IF t + 1 <= Len(mdl.memo) THEN mdl.memo[t + 1]
    ELSE IF t <= mdl.starttime THEN mdl.initial_value
    ELSE LET prev == Stock(mdl, t - 1)
         IN  FAdd(prev, FMul(mdl.dt, NetFlow(mdl, prev)))

\* The memo after model.memoize("bee_colonies", t): every stock value up to t.
RECURSIVE Memoize(_, _)
Memoize(mdl, t) ==
    IF t + 1 <= Len(mdl.memo) \/ t < mdl.starttime THEN mdl.memo
    ELSE LET before == [mdl EXCEPT !.memo = Memoize(mdl, t - 1)]
         IN  Append(before.memo, Stock(before, t))

\* ---------------------------------------------------------------------------
\* simulate_scenario
\* ---------------------------------------------------------------------------

\* Mutant: the converters are read one time step behind the stock.
RecordLagged(mdl, s) ==
    LET colonies == Stock(mdl, s)
        before == Stock(mdl, IF s > mdl.starttime THEN s - 1 ELSE s)
    IN  [t |-> consts.START_YEAR + s,
         bee_colonies |-> colonies,
         honey_yield_per_colony |-> honey_yield_per_colony(mdl),
         honey_production_tons |-> honey_production_tons(mdl, before),
         economic_value_chf |-> economic_value_chf(mdl, before)]

\* The dict appended to records in one pass of the loop, after the four
\* model.memoize calls at this step.
Record(mdl, s) ==
    LET colonies == Stock(mdl, s)
    IN  [t |-> consts.START_YEAR + s,
         bee_colonies |-> colonies,
         honey_yield_per_colony |-> honey_yield_per_colony(mdl),
         honey_production_tons |-> honey_production_tons(mdl, colonies),
         economic_value_chf |-> economic_value_chf(mdl, colonies)]

\* Mutant: range(start, stop) without the + 1.
LastStepExclusive(mdl) == mdl.stoptime - 1

\* range(int(model.starttime), int(model.stoptime) + 1): the last step of the loop.
LastStep(mdl) == mdl.stoptime

\* pd.DataFrame(records).set_index("t") raises KeyError when records is empty:
\* the frame of an empty list has no column "t".
SetIndexRaises(recs) == recs = << >>

\* The frame indexed by t: its rows in order, each carrying its index label t.
SetIndex(recs) == recs

\* ---------------------------------------------------------------------------
\* compute_losses_vs_baseline
\* ---------------------------------------------------------------------------

Index(frame) == {frame[i].t : i \in 1..Len(frame)}

Row(frame, t) == frame[CHOOSE i \in 1..Len(frame) : frame[i].t = t]

\* baseline.join(scenario, how="inner", lsuffix="_baseline", rsuffix="_scenario"):
\* the rows of baseline whose index label is in scenario too, in baseline's order.
RECURSIVE Join(_, _)
Join(baseline, scenario) ==
    IF baseline = << >> THEN << >>
    ELSE LET b == Head(baseline)
             rest == Join(Tail(baseline), scenario)
         IN  IF b.t \in Index(scenario)
             THEN LET sc == Row(scenario, b.t)
                  IN  << [t |-> b.t,
                          bee_colonies_baseline |-> b.bee_colonies,
                          honey_yield_per_colony_baseline |-> b.honey_yield_per_colony,
                          honey_production_tons_baseline |-> b.honey_production_tons,
                          economic_value_chf_baseline |-> b.economic_value_chf,
                          bee_colonies_scenario |-> sc.bee_colonies,
                          honey_yield_per_colony_scenario |-> sc.honey_yield_per_colony,
                          honey_production_tons_scenario |-> sc.honey_production_tons,
                          economic_value_chf_scenario |-> sc.economic_value_chf] >> \o rest
             ELSE rest

\* Mutant: the loss clamped at zero (the other loss-sign policy).
EconomicLossClamped(row) ==
    FMax(Zero, FSub(row.economic_value_chf_baseline, row.economic_value_chf_scenario))

\* merged["economic_loss_chf"] = baseline value - scenario value, row by row
EconomicLoss(row) ==
    FSub(row.economic_value_chf_baseline, row.economic_value_chf_scenario)

\* Mutant: the loss clamped at zero (the other loss-sign policy).
HoneyLossClamped(row) ==
    FMax(Zero, FSub(row.honey_production_tons_baseline,
                    row.honey_production_tons_scenario))

\* merged["honey_loss_tons"] = baseline production - scenario production
HoneyLoss(row) ==
    FSub(row.honey_production_tons_baseline, row.honey_production_tons_scenario)

\* The value cumsum starts from before the first row is added.
CumsumStart == Zero

\* Series.cumsum(): the running sums of xs, accumulated in order.
RECURSIVE Cumsum(_, _)
Cumsum(xs, acc) ==
    IF xs = << >> THEN << >>
    ELSE LET sum == FAdd(acc, Head(xs))
         IN  <<sum>> \o Cumsum(Tail(xs), sum)

compute_losses_vs_baseline(baseline, scenario) ==
    LET merged == Join(baseline, scenario)
        n == Len(merged)
        economic_loss_chf == [i \in 1..n |-> EconomicLoss(merged[i])]
        honey_loss_tons == [i \in 1..n |-> HoneyLoss(merged[i])]
        cumulative_economic_loss_chf == Cumsum(economic_loss_chf, CumsumStart)
        cumulative_honey_loss_tons == Cumsum(honey_loss_tons, CumsumStart)
    IN  [i \in 1..n |->
            [t |-> merged[i].t,
             bee_colonies_baseline |-> merged[i].bee_colonies_baseline,
             honey_yield_per_colony_baseline |-> merged[i].honey_yield_per_colony_baseline,
             honey_production_tons_baseline |-> merged[i].honey_production_tons_baseline,
             economic_value_chf_baseline |-> merged[i].economic_value_chf_baseline,
             bee_colonies_scenario |-> merged[i].bee_colonies_scenario,
             honey_yield_per_colony_scenario |-> merged[i].honey_yield_per_colony_scenario,
             honey_production_tons_scenario |-> merged[i].honey_production_tons_scenario,
             economic_value_chf_scenario |-> merged[i].economic_value_chf_scenario,
             economic_loss_chf |-> economic_loss_chf[i],
             honey_loss_tons |-> honey_loss_tons[i],
             cumulative_economic_loss_chf |-> cumulative_economic_loss_chf[i],
             cumulative_honey_loss_tons |-> cumulative_honey_loss_tons[i]]]

\* ---------------------------------------------------------------------------
\* Inputs
\* ---------------------------------------------------------------------------

MaxYears == 3
Years == (-1)..MaxYears

Tenths(k) == F(k, -1)

\* Drivers in [0, 1], in tenths.
StressLevels == {0, 3, 10}
ManagementLevels == {0, 7}
ClimateLevels == {4, 10}
BaselineStressLevels == {0, 3}

GridParams ==
    {ScenarioParams(Tenths(es), Tenths(dm), Tenths(cf)) :
        es \in StressLevels, dm \in ManagementLevels, cf \in ClimateLevels}

BaselineParams ==
    {ScenarioParams(Tenths(es), Tenths(dm), Tenths(cf)) :
        es \in BaselineStressLevels, dm \in ManagementLevels, cf \in ClimateLevels}

\* Parameters simulate_scenario is called with directly: the engine accepts
\* any floats, in [0, 1] or not.
DirectParams ==
    {ScenarioParams(Tenths(3), Tenths(7), Tenths(6)),
     ScenarioParams(Tenths(15), Tenths(-5), Tenths(12))}

\* The defaults of api_simulate.
DefaultBaseline == ScenarioParams(Tenths(3), Tenths(7), Tenths(6))
DefaultScenario == ScenarioParams(Tenths(8), Tenths(3), Tenths(4))

\* api_simulate._clamp01
Clamp01(value) == FMax(Zero, FMin(One, value))

\* ScenarioParams as api_simulate builds them from the request's numbers.
ClampedParams(cfg) ==
    ScenarioParams(Clamp01(cfg.environment_stress),
                   Clamp01(cfg.disease_management),
                   Clamp01(cfg.climate_factor))

\* The parameter objects of the requests to /api/simulate: any numbers.
RequestCfgs ==
    {ScenarioParams(Tenths(5), Tenths(5), Tenths(5)),
     ScenarioParams(Tenths(15), Tenths(-5), Tenths(12))}

\* A long horizon, and the eight corners of the unit cube of drivers: the
\* net flow is monotone in each driver, so the corners bound every run with
\* drivers in [0, 1].
LongYears == 40
CornerLevels == {0, 10}
CornerParams ==
    {ScenarioParams(Tenths(es), Tenths(dm), Tenths(cf)) :
        es \in CornerLevels, dm \in CornerLevels, cf \in CornerLevels}

Slots == {"baseline", "scenario"}
NoFrames == [baseline |-> << >>, scenario |-> << >>, loss |-> << >>]

\* ---------------------------------------------------------------------------
\* The state machine
\* ---------------------------------------------------------------------------

Init ==
    /\ consts = ModuleConstants
    /\ params = [baseline |-> DefaultBaseline, scenario |-> DefaultScenario]
    /\ pc = "idle"
    /\ via = "run"
    /\ target = "baseline"
    /\ years = [baseline |-> 0, scenario |-> 0]
    /\ model = NoModel
    /\ step = 0
    /\ records = << >>
    /\ df = NoFrames
    /\ returned = {}
    /\ raised = "none"

\* run_bee_scenarios(years, baseline_params, scenario_params) is called.
RunBeeScenarios(y, pb, ps) ==
    /\ pc = "idle"
    /\ params' = [baseline |-> pb, scenario |-> ps]
    /\ years' = [baseline |-> y, scenario |-> y]
    /\ via' = "run"
    /\ target' = "baseline"
    /\ pc' = "build"
    /\ df' = NoFrames
    /\ returned' = {}
    /\ raised' = "none"
    /\ step' = 0
    /\ records' = << >>
    /\ UNCHANGED <<consts, model>>

\* api_simulate up to its call of run_bee_scenarios: years = int(data["years"]),
\* the drivers clamped to [0, 1].  (The JSON it builds from the three frames
\* afterwards is not modelled.)
ApiSimulate(y, baseline_cfg, scenario_cfg) ==
    /\ pc = "idle"
    /\ params' = [baseline |-> ClampedParams(baseline_cfg),
                  scenario |-> ClampedParams(scenario_cfg)]
    /\ years' = [baseline |-> y, scenario |-> y]
    /\ via' = "api"
    /\ target' = "baseline"
    /\ pc' = "build"
    /\ df' = NoFrames
    /\ returned' = {}
    /\ raised' = "none"
    /\ step' = 0
    /\ records' = << >>
    /\ UNCHANGED <<consts, model>>

\* The caller calls simulate_scenario(yb, pb), then simulate_scenario(ys, ps),
\* then compute_losses_vs_baseline on the two frames: the three public
\* functions composed by hand, each horizon the caller's choice.
SimulateScenarios(yb, pb, ys, ps) ==
    /\ pc = "idle"
    /\ params' = [baseline |-> pb, scenario |-> ps]
    /\ years' = [baseline |-> yb, scenario |-> ys]
    /\ via' = "direct"
    /\ target' = "baseline"
    /\ pc' = "build"
    /\ df' = NoFrames
    /\ returned' = {}
    /\ raised' = "none"
    /\ step' = 0
    /\ records' = << >>
    /\ UNCHANGED <<consts, model>>

\* Mutant: the drivers are clamped in place on the caller's object.
BuildModelClamping ==
    /\ pc = "build"
    /\ params' = [params EXCEPT ![target] = ClampedParams(params[target])]
    /\ model' = BuildBeeModel(years[target], params'[target])
    /\ step' = model'.starttime
    /\ records' = << >>
    /\ pc' = "loop"
    /\ UNCHANGED <<consts, via, target, years, df, returned, raised>>

\* model = _build_bee_model(years, params); records = []
BuildModel ==
    /\ pc = "build"
    /\ model' = BuildBeeModel(years[target], params[target])
    /\ step' = model'.starttime
    /\ records' = << >>
    /\ pc' = "loop"
    /\ UNCHANGED <<consts, params, via, target, years, df, returned, raised>>

\* One pass of the loop of simulate_scenario.
LoopStep ==
    /\ pc = "loop"
    /\ step <= LastStep(model)
    /\ model' = [model EXCEPT !.memo = Memoize(model, step)]
    /\ records' = Append(records, Record(model', step))
    /\ step' = step + 1
    /\ UNCHANGED <<consts, params, pc, via, target, years, df, returned, raised>>

\* The loop is over: return pd.DataFrame(records).set_index("t"), or raise.
\* The baseline frame is followed by the scenario run and the scenario frame
\* by the loss computation; an exception ends the whole call.
ReturnFrame ==
    /\ pc = "loop"
    /\ step > LastStep(model)
    /\ IF SetIndexRaises(records)
       THEN /\ raised' = "KeyError"
            /\ pc' = "idle"
            /\ UNCHANGED <<df, returned, target>>
       ELSE /\ df' = [df EXCEPT ![target] = SetIndex(records)]
            /\ returned' = returned \cup {target}
            /\ raised' = "none"
            /\ pc' = IF target = "baseline" THEN "build" ELSE "losses"
            /\ target' = "scenario"
    /\ records' = << >>
    /\ step' = 0
    /\ UNCHANGED <<consts, params, via, years, model>>

\* df_loss = compute_losses_vs_baseline(df_baseline, df_scenario)
ComputeLosses ==
    /\ pc = "losses"
    /\ df' = [df EXCEPT !.loss = compute_losses_vs_baseline(df.baseline, df.scenario)]
    /\ returned' = returned \cup {"loss"}
    /\ pc' = "idle"
    /\ UNCHANGED <<consts, params, via, target, years, model, step, records, raised>>

Next ==
    \/ \E y \in Years, pb \in BaselineParams, ps \in GridParams : RunBeeScenarios(y, pb, ps)
    \/ \E y \in Years, cb \in RequestCfgs, cs \in RequestCfgs : ApiSimulate(y, cb, cs)
    \/ \E yb \in Years, ys \in Years, pb \in DirectParams, ps \in DirectParams :
          SimulateScenarios(yb, pb, ys, ps)
    \/ BuildModel
    \/ LoopStep
    \/ ReturnFrame
    \/ ComputeLosses

Spec == Init /\ [][Next]_vars

\* ---------------------------------------------------------------------------
\* The runs the repository's own scripts make
\* ---------------------------------------------------------------------------

Run(y, pb, ps) == [years |-> y, baseline |-> pb, scenario |-> ps]

\* script.py, __main__ (and the defaults of api_simulate)
DemoRun ==
    Run(20, ScenarioParams(Tenths(3), Tenths(7), Tenths(6)),
            ScenarioParams(Tenths(8), Tenths(3), Tenths(4)))

\* script.py, _test_higher_stress_leads_to_lower_population
HigherStressRun ==
    Run(20, ScenarioParams(Tenths(2), Tenths(8), Tenths(6)),
            ScenarioParams(Tenths(8), Tenths(8), Tenths(6)))

\* script.py, _test_losses_correct_sign
LossSignRun ==
    Run(10, ScenarioParams(Tenths(3), Tenths(7), Tenths(6)),
            ScenarioParams(Tenths(9), Tenths(2), Tenths(3)))

\* test_model.py, simulation 1 and simulation 2
BadRun ==
    Run(20, ScenarioParams(Tenths(3), Tenths(7), Tenths(6)),
            ScenarioParams(Tenths(9), Tenths(2), Tenths(4)))
GoodRun ==
    Run(20, ScenarioParams(Tenths(3), Tenths(7), Tenths(6)),
            ScenarioParams(Tenths(1), Tenths(9), Tenths(8)))

\* debug_model.py
DebugRun ==
    Run(10, ScenarioParams(Tenths(0), Tenths(10), Tenths(10)),
            ScenarioParams(Tenths(10), Tenths(0), Tenths(0)))

SourceRuns == {DemoRun, HigherStressRun, LossSignRun, BadRun, GoodRun, DebugRun}

NextSource ==
    \/ \E r \in SourceRuns : RunBeeScenarios(r.years, r.baseline, r.scenario)
    \/ BuildModel
    \/ LoopStep
    \/ ReturnFrame
    \/ ComputeLosses

SpecSource == Init /\ [][NextSource]_vars

\* ---------------------------------------------------------------------------
\* Long runs: run_bee_scenarios and /api/simulate over LongYears years
\* ---------------------------------------------------------------------------

NextLong ==
    \/ \E pb \in CornerParams, ps \in CornerParams : RunBeeScenarios(LongYears, pb, ps)
    \/ \E cb \in RequestCfgs, cs \in RequestCfgs : ApiSimulate(LongYears, cb, cs)
    \/ BuildModel
    \/ LoopStep
    \/ ReturnFrame
    \/ ComputeLosses

SpecLong == Init /\ [][NextLong]_vars

\* ---------------------------------------------------------------------------
\* Properties
\* ---------------------------------------------------------------------------

\* The three drivers of p lie in [0, 1].
InUnit(p) ==
    /\ FLe(Zero, p.environment_stress) /\ FLe(p.environment_stress, One)
    /\ FLe(Zero, p.disease_management) /\ FLe(p.disease_management, One)
    /\ FLe(Zero, p.climate_factor) /\ FLe(p.climate_factor, One)

Last(frame) == frame[Len(frame)]

\* The call in progress or last made is one of run_bee_scenarios.
ViaRun == via \in {"run", "api"}

\* Both runs and the loss computation of a call are over.
CompareDone == pc = "idle" /\ "loss" \in returned

\* C1: for every years >= 0 and every ScenarioParams, simulate_scenario returns
\* (it does not raise) exactly years + 1 records in chronological order, with
\* record[i].t = START_YEAR + i for i in 0..years.
C1_HorizonLength ==
    /\ \A k \in returned \cap Slots :
          years[k] >= 0 =>
             /\ Len(df[k]) = years[k] + 1
             /\ \A i \in 1..Len(df[k]) : df[k][i].t = START_YEAR + (i - 1)
    /\ (raised # "none" => years[target] < 0)

C1_Witness ==
    /\ "scenario" \in returned
    /\ years.scenario = MaxYears
    /\ Len(df.scenario) = MaxYears + 1
    /\ Last(df.scenario).t = START_YEAR + MaxYears
    /\ ~InUnit(params.scenario)

\* Python's exceptions for an invalid argument.
InvalidArgumentErrors == {"ValueError", "TypeError"}

\* C2: a call of simulate_scenario or run_bee_scenarios with a negative years
\* fails with an invalid-argument error, before any simulation step has run or
\* any record has been produced, and returns no series.
C2_NegativeYearsInvalidArgument ==
    /\ (years[target] < 0 /\ pc = "loop") => (records = << >> /\ model.memo = << >>)
    /\ \A k \in returned \cap Slots : years[k] >= 0
    /\ (years[target] < 0 /\ pc = "idle") => raised \in InvalidArgumentErrors

\* C3 as stated: for years = 0, run_bee_scenarios returns one record per
\* scenario, the initial condition (182,300 colonies at t = 2022), and every
\* field of the single loss record is zero.
C3_ZeroHorizonAllLossesZero ==
    (CompareDone /\ ViaRun /\ years.baseline = 0) =>
        /\ Len(df.baseline) = 1 /\ Len(df.scenario) = 1 /\ Len(df.loss) = 1
        /\ \A k \in Slots :
              df[k][1].t = START_YEAR
              /\ df[k][1].bee_colonies = Float(DEFAULT_INITIAL_COLONIES)
        /\ df.loss[1].economic_loss_chf = Zero
        /\ df.loss[1].cumulative_economic_loss_chf = Zero
        /\ df.loss[1].honey_loss_tons = Zero
        /\ df.loss[1].cumulative_honey_loss_tons = Zero

\* C3, amended: for years = 0, run_bee_scenarios returns one record per
\* scenario with 182,300 colonies at t = 2022; economic_loss_chf and
\* cumulative_economic_loss_chf are zero; honey_loss_tons and
\* cumulative_honey_loss_tons both equal the baseline's honey production of
\* that record minus the scenario's, which is zero whenever the two
\* parameter sets give the same honey_yield_per_colony.
C3_ZeroHorizon ==
    (CompareDone /\ ViaRun /\ years.baseline = 0) =>
        /\ Len(df.baseline) = 1 /\ Len(df.scenario) = 1 /\ Len(df.loss) = 1
        /\ \A k \in Slots :
              df[k][1].t = START_YEAR
              /\ df[k][1].bee_colonies = Float(DEFAULT_INITIAL_COLONIES)
        /\ df.loss[1].economic_loss_chf = Zero
        /\ df.loss[1].cumulative_economic_loss_chf = Zero
        /\ df.loss[1].honey_loss_tons =
              FSub(df.baseline[1].honey_production_tons,
                   df.scenario[1].honey_production_tons)
        /\ df.loss[1].cumulative_honey_loss_tons = df.loss[1].honey_loss_tons
        /\ (df.baseline[1].honey_yield_per_colony
                 = df.scenario[1].honey_yield_per_colony
              => df.loss[1].honey_loss_tons = Zero)

C3_Witness ==
    /\ CompareDone /\ ViaRun /\ years.baseline = 0
    /\ params.baseline # params.scenario
    /\ df.loss[1].economic_loss_chf = Zero
    /\ FLt(Zero, df.loss[1].honey_loss_tons)

\* C4: for any years >= 0 and parameters with drivers in [0, 1], equal
\* disease_management and climate_factor, and the scenario's
\* environment_stress at least the baseline's, the final-year bee_colonies of
\* the scenario run is at most that of the baseline run.
C4_MonotonicStress ==
    (/\ CompareDone
     /\ years.baseline = years.scenario
     /\ InUnit(params.baseline) /\ InUnit(params.scenario)
     /\ params.baseline.disease_management = params.scenario.disease_management
     /\ params.baseline.climate_factor = params.scenario.climate_factor
     /\ FLe(params.baseline.environment_stress, params.scenario.environment_stress))
    => FLe(Last(df.scenario).bee_colonies, Last(df.baseline).bee_colonies)

C4_Witness ==
    /\ CompareDone /\ ViaRun
    /\ years.baseline = MaxYears
    /\ params.baseline.disease_management = params.scenario.disease_management
    /\ params.baseline.climate_factor = params.scenario.climate_factor
    /\ FLt(params.baseline.environment_stress, params.scenario.environment_stress)
    /\ FLt(Last(df.scenario).bee_colonies, Last(df.baseline).bee_colonies)

\* The scenario is no better than the baseline in any driver.
WorseInEveryDriver(b, sc) ==
    /\ FLe(b.environment_stress, sc.environment_stress)
    /\ FLe(sc.disease_management, b.disease_management)
    /\ FLe(sc.climate_factor, b.climate_factor)

\* C5: when the scenario is worse than the baseline in every driver (all in
\* [0, 1]), every year of the loss series of run_bee_scenarios has
\* economic_loss_chf >= 0 and honey_loss_tons >= 0.
C5_LossSign ==
    (/\ CompareDone
     /\ ViaRun
     /\ InUnit(params.baseline) /\ InUnit(params.scenario)
     /\ WorseInEveryDriver(params.baseline, params.scenario))
    => \A i \in 1..Len(df.loss) :
          /\ FLe(Zero, df.loss[i].economic_loss_chf)
          /\ FLe(Zero, df.loss[i].honey_loss_tons)

C5_Witness ==
    /\ CompareDone /\ ViaRun
    /\ years.baseline = MaxYears
    /\ FLt(params.baseline.environment_stress, params.scenario.environment_stress)
    /\ FLt(params.scenario.disease_management, params.baseline.disease_management)
    /\ FLt(params.scenario.climate_factor, params.baseline.climate_factor)
    /\ FLt(Zero, Last(df.loss).economic_loss_chf)
    /\ FLt(Zero, Last(df.loss).honey_loss_tons)

\* The demo run of script.py has been made and is over.
DemoDone ==
    /\ CompareDone
    /\ years.baseline = DemoRun.years
    /\ params.baseline = DemoRun.baseline
    /\ params.scenario = DemoRun.scenario

\* C6: for years = 20 from 182,300 colonies, baseline (0.3, 0.7, 0.6) and
\* stress scenario (0.8, 0.3, 0.4), the scenario's final-year bee_colonies is
\* strictly below the baseline's and the final cumulative_economic_loss_chf
\* is strictly positive.
C6_DemoRun ==
    DemoDone =>
        /\ df.baseline[1].bee_colonies = Float(DEFAULT_INITIAL_COLONIES)
        /\ df.scenario[1].bee_colonies = Float(DEFAULT_INITIAL_COLONIES)
        /\ FLt(Last(df.scenario).bee_colonies, Last(df.baseline).bee_colonies)
        /\ FLt(Zero, Last(df.loss).cumulative_economic_loss_chf)

C6_Witness ==
    /\ DemoDone
    /\ Len(df.loss) = DemoRun.years + 1
    /\ Last(df.loss).t = START_YEAR + DemoRun.years

\* The sum of xs[1..i], added in order from zero.
RECURSIVE RunningSum(_, _)
RunningSum(xs, i) ==
    IF i = 0 THEN Zero ELSE FAdd(RunningSum(xs, i - 1), xs[i])

\* C7: in every loss series, each year's economic_loss_chf and honey_loss_tons
\* is baseline minus scenario for that year (signed), and each cumulative
\* field at year t is the sum of the per-year loss over the years of that
\* invocation up to and including t, starting from zero.
C7_LossesAndRunningSums ==
    "loss" \in returned =>
        LET n == Len(df.loss)
            econ == [j \in 1..n |-> df.loss[j].economic_loss_chf]
            honey == [j \in 1..n |-> df.loss[j].honey_loss_tons]
        IN  \A i \in 1..n :
               LET b == Row(df.baseline, df.loss[i].t)
                   sc == Row(df.scenario, df.loss[i].t)
               IN  /\ df.loss[i].economic_loss_chf =
                         FSub(b.economic_value_chf, sc.economic_value_chf)
                   /\ df.loss[i].honey_loss_tons =
                         FSub(b.honey_production_tons, sc.honey_production_tons)
                   /\ df.loss[i].cumulative_economic_loss_chf = RunningSum(econ, i)
                   /\ df.loss[i].cumulative_honey_loss_tons = RunningSum(honey, i)

C7_Witness ==
    /\ CompareDone
    /\ Len(df.loss) = MaxYears + 1
    /\ FLt(Last(df.loss).economic_loss_chf, Zero)
    /\ FLt(Last(df.loss).cumulative_economic_loss_chf, Last(df.loss).economic_loss_chf)
    /\ FLt(Zero, Last(df.loss).honey_loss_tons)

\* C8: compute_losses_vs_baseline, given a baseline and a scenario series of
\* different horizons, fails instead of returning a loss series truncated to
\* the common years: a loss series is only ever returned for two series over
\* the same years.
C8_MismatchedHorizonsFail ==
    "loss" \in returned => Index(df.baseline) = Index(df.scenario)

\* The series a first call simulate_scenario(y, p) in a new process returns.
FirstCallSeries(y, p) ==
    LET fresh == [BuildBeeModel(y, p) EXCEPT !.memo = << >>]
        done  == [fresh EXCEPT !.memo = Memoize(fresh, y)]
    IN  [i \in 1..(y + 1) |-> Record(done, i - 1)]

\* C9: the result of simulate_scenario and of run_bee_scenarios is a function
\* of the call's arguments only: whatever calls were made before, a call
\* returns the series a first call with its arguments returns, and two calls
\* with the same arguments return the same series.
C9_NoSharedState ==
    /\ \A k \in returned \cap Slots : df[k] = FirstCallSeries(years[k], params[k])
    /\ (Slots \subseteq returned
          /\ years.baseline = years.scenario /\ params.baseline = params.scenario)
       => df.baseline = df.scenario
    /\ "loss" \in returned =>
          df.loss = compute_losses_vs_baseline(df.baseline, df.scenario)

C9_Witness ==
    /\ CompareDone /\ ViaRun
    /\ years.scenario = MaxYears
    /\ params.baseline # params.scenario
    /\ Last(df.baseline).bee_colonies # Last(df.scenario).bee_colonies
    /\ df.scenario = FirstCallSeries(years.scenario, params.scenario)

\* C10: simulate_scenario and run_bee_scenarios leave the ScenarioParams
\* objects passed to them and the module-level constants unchanged: no step
\* of a call in progress changes them.
C10_ParamsUnchanged ==
    [][pc # "idle" => (params' = params /\ consts' = consts)]_vars

C10_Witness ==
    /\ CompareDone
    /\ ~InUnit(params.baseline) /\ ~InUnit(params.scenario)
    /\ params.baseline = ScenarioParams(Tenths(15), Tenths(-5), Tenths(12))
    /\ consts = ModuleConstants

\* The records of a run made with years y and parameters p are consistent:
\* the first is the start year with the initial stock, each record's honey
\* production and economic value come from its own colony count, and each
\* colony count after the first is the one before it plus its growth flow
\* minus its loss flow.
RecordsConsistent(recs, y, p) ==
    LET mdl == BuildBeeModel(y, p)
    IN  /\ Len(recs) >= 1 =>
              /\ recs[1].t = consts.START_YEAR
              /\ recs[1].bee_colonies = Float(consts.DEFAULT_INITIAL_COLONIES)
        /\ \A i \in 1..Len(recs) :
              /\ recs[i].honey_production_tons =
                     FDiv(FMul(recs[i].bee_colonies, recs[i].honey_yield_per_colony),
                          Thousand)
              /\ recs[i].economic_value_chf =
                     FMul(FMul(recs[i].bee_colonies, Float(consts.VALUE_PER_COLONY)),
                          consts.ECONOMIC_VALUE_SCALER)
        /\ \A i \in 2..Len(recs) :
              LET c == recs[i - 1].bee_colonies
              IN  recs[i].bee_colonies =
                     FAdd(c, FSub(colony_growth(mdl, c), colony_losses(mdl, c)))

\* C11: in every record of every run, the first one included (t = start year,
\* bee_colonies = 182,300), honey_production_tons is bee_colonies *
\* honey_yield_per_colony / 1000 and economic_value_chf is bee_colonies *
\* VALUE_PER_COLONY * ECONOMIC_VALUE_SCALER of that same record, and from the
\* second record on bee_colonies is c + growth_flow(c) - loss_flow(c) with c
\* the colony count of the record before.
C11_DerivedFromSameRecord ==
    /\ pc = "loop" => RecordsConsistent(records, years[target], params[target])
    /\ \A k \in returned \cap Slots : RecordsConsistent(df[k], years[k], params[k])

\* A scenario of three years has been returned and its colony count has moved
\* in every step.
C11_Witness ==
    /\ CompareDone
    /\ Len(df.scenario) = 4
    /\ \A i \in 2..4 : df.scenario[i].bee_colonies # df.scenario[i - 1].bee_colonies
    /\ df.scenario[4].economic_value_chf # df.scenario[1].economic_value_chf

\* Every colony count of recs is above zero and at most the carrying capacity.
PopulationInRange(recs) ==
    \A i \in 1..Len(recs) :
        /\ FLt(Zero, recs[i].bee_colonies)
        /\ FLe(recs[i].bee_colonies, Float(consts.CARRYING_CAPACITY))

\* C12: for every horizon and every ScenarioParams whose three drivers lie
\* in [0, 1] (as /api/simulate guarantees by clamping), every record of the
\* run has bee_colonies strictly greater than 0 and at most CARRYING_CAPACITY:
\* the stock update, which has no floor and no cap, never takes the
\* population out of that range from the initial 182,300.
C12_PopulationInRange ==
    /\ (pc = "loop" /\ InUnit(params[target])) => PopulationInRange(records)
    /\ \A k \in returned \cap Slots : InUnit(params[k]) => PopulationInRange(df[k])

BestCase == ScenarioParams(Tenths(0), Tenths(10), Tenths(10))
WorstCase == ScenarioParams(Tenths(10), Tenths(0), Tenths(0))

\* The most favourable and the least favourable drivers have been run over the
\* long horizon: with the first the population has grown from its initial
\* value, with the second it has fallen below a hundredth of it.
C12_Witness ==
    /\ CompareDone
    /\ params.baseline = BestCase /\ params.scenario = WorstCase
    /\ Len(df.baseline) = LongYears + 1 /\ Len(df.scenario) = LongYears + 1
    /\ FLt(Float(consts.DEFAULT_INITIAL_COLONIES), Last(df.baseline).bee_colonies)
    /\ FLt(FMul(F(100, 0), Last(df.scenario).bee_colonies),
           Float(consts.DEFAULT_INITIAL_COLONIES))
====
